---- MODULE Spec2Model ----
(***************************************************************************)
(* Model of retrieval_coarse/averitec_search.py: the resume parser, the    *)
(* claim loop (date ceiling, query generation, paginated search with       *)
(* retry, result filter, per-claim dedup, fetch submission) and the        *)
(* ProcessPoolExecutor that runs get_and_store, followed by the drain      *)
(* loop.  Python strings are sequences of tokens (one-character or         *)
(* multi-character pieces), so that strip, split, join and formatting are  *)
(* computed and not assumed.                                               *)
(***************************************************************************)
EXTENDS Integers, Sequences, FiniteSets, TLC

VARIABLES
    examples,       \* json.load(args.averitec_file): sequence of claim records
    args,           \* parsed command line: n_pages, start_idx, n_to_compute, resume
    resume_file,    \* the lines of the file args.resume names
    env,            \* the external collaborators: what SearchProvider / PageExtractor may do
    pc,             \* position of the main thread
    line_no,        \* resume parser: number of lines read
    first,          \* resume parser: header flag
    next_claim,     \* resume parser: group being built
    existing,       \* resume parser: claim text -> stored group
    idx,            \* claim loop: index of the current claim
    sort_date,      \* claim loop: date ceiling of the current claim
    queries,        \* claim loop: zip(search_strings, search_types)
    qi,             \* claim loop: position in queries
    page_num,       \* claim loop: current page
    attempt,        \* get_google_search_results: attempts made in the current call
    pauses,         \* get_google_search_results: sleep(3) calls made in the current call
    results,        \* claim loop: results of the current call still to examine
    visited,        \* claim loop: link -> store path, per claim
    store_counter,  \* claim loop: per-claim counter
    futures,        \* executor: submitted tasks in submission order, with future_to_meta
    files,          \* store folder: the writes made, as (path, text, writing task)
    out,            \* standard output: sequence of printed lines
    calls           \* history: the search calls completed, as <<idx, query position, page>>

vars == <<examples, args, resume_file, env, pc, line_no, first, next_claim, existing,
          idx, sort_date, queries, qi, page_num, attempt, pauses, results, visited,
          store_counter, futures, files, out, calls>>

-----------------------------------------------------------------------------
(* Text primitives                                                          *)

TAB == "\t"
SP == " "
Whitespace == {SP, TAB, "\n"}

\* the value Python's None / a missing key has, for a field that is otherwise text
None == <<"<None>">>

RECURSIVE LStrip(_)
LStrip(s) == IF s # <<>> /\ Head(s) \in Whitespace THEN LStrip(Tail(s)) ELSE s

RECURSIVE RStrip(_)
RStrip(s) ==
    IF s # <<>> /\ s[Len(s)] \in Whitespace THEN RStrip(SubSeq(s, 1, Len(s) - 1)) ELSE s

\* str.strip()
Strip(s) == RStrip(LStrip(s))

\* str.split(sep): always at least one part, empty parts kept
RECURSIVE SplitFrom(_, _, _, _)
SplitFrom(s, sep, cur, acc) ==
    IF s = <<>> THEN Append(acc, cur)
    ELSE IF Head(s) = sep THEN SplitFrom(Tail(s), sep, <<>>, Append(acc, cur))
    ELSE SplitFrom(Tail(s), sep, Append(cur, Head(s)), acc)

Split(s, sep) == SplitFrom(s, sep, <<>>, <<>>)

\* str.split() without separator: runs of whitespace separate, no empty parts
RECURSIVE SplitWSFrom(_, _, _)
SplitWSFrom(s, cur, acc) ==
    IF s = <<>> THEN (IF cur = <<>> THEN acc ELSE Append(acc, cur))
    ELSE IF Head(s) \in Whitespace
         THEN SplitWSFrom(Tail(s), <<>>, IF cur = <<>> THEN acc ELSE Append(acc, cur))
    ELSE SplitWSFrom(Tail(s), Append(cur, Head(s)), acc)

SplitWS(s) == SplitWSFrom(s, <<>>, <<>>)

\* sep.join(parts)
RECURSIVE Join(_, _)
Join(parts, sep) ==
    IF parts = <<>> THEN <<>>
    ELSE IF Len(parts) = 1 THEN parts[1]
    ELSE parts[1] \o <<sep>> \o Join(Tail(parts), sep)

Digits == <<"0", "1", "2", "3", "4", "5", "6", "7", "8", "9">>
DigitSet == {Digits[i] : i \in 1..10}
DigitVal(c) == (CHOOSE i \in 1..10 : Digits[i] = c) - 1

\* str(n) for a natural number
RECURSIVE Str(_)
Str(n) == IF n < 10 THEN <<Digits[n + 1]>> ELSE Str(n \div 10) \o <<Digits[(n % 10) + 1]>>

IsDigits(s) == s # <<>> /\ \A i \in 1..Len(s) : s[i] \in DigitSet

\* int(s) for a string of digits
RECURSIVE IntOf(_)
IntOf(s) == IF s = <<>> THEN 0 ELSE 10 * IntOf(SubSeq(s, 1, Len(s) - 1)) + DigitVal(s[Len(s)])

-----------------------------------------------------------------------------
(* Date ceiling (main loop, "Normaliza data")                               *)

FallbackYear == <<"2", "0", "2", "2">>
FallbackMonth == <<"0", "1">>
FallbackDay == <<"0", "1">>

\* year, month, date = example["check_date"].split("-"), or the fallback when that raises
SplitDate(check_date) ==
    IF check_date = None THEN <<FallbackYear, FallbackMonth, FallbackDay>>
    ELSE IF Len(Split(check_date, "-")) # 3 THEN <<FallbackYear, FallbackMonth, FallbackDay>>
    ELSE Split(check_date, "-")

\* int(year) raises ValueError outside the try block
DateRaises(check_date) ==
    LET year == SplitDate(check_date)[1] IN Len(year) = 2 /\ ~IsDigits(year)

\* the century test written with < instead of <=
ExpandYearStrict(year) ==
    IF Len(year) = 2 THEN (IF IntOf(year) < 30 THEN <<"2", "0">> ELSE <<"1", "9">>) \o year
    ELSE IF Len(year) = 1 THEN <<"2", "0", "0">> \o year
    ELSE year

ExpandYear(year) ==
    IF Len(year) = 2 THEN (IF IntOf(year) <= 30 THEN <<"2", "0">> ELSE <<"1", "9">>) \o year
    ELSE IF Len(year) = 1 THEN <<"2", "0", "0">> \o year
    ELSE year

PadTwo(s) == IF Len(s) = 1 THEN <<"0">> \o s ELSE s

\* sort_date = year + month + date
SortDate(check_date) ==
    LET ymd == SplitDate(check_date)
    IN  ExpandYear(ymd[1]) \o PadTwo(ymd[2]) \o PadTwo(ymd[3])

-----------------------------------------------------------------------------
(* Query generation                                                         *)

StartsWith(s, p) == Len(s) >= Len(p) /\ SubSeq(s, 1, Len(p)) = p

\* Tokenizer capability: word_tokenize on stripped text, pos_tag per word.
\* A word is a run of non-whitespace tokens; the tag table stands for the tagger.
word_tokenize(text) == SplitWS(Strip(text))

pos_tag(word) ==
    CASE word = <<"cat">> -> <<"N", "N">>
      [] word = <<"mats">> -> <<"N", "N", "S">>
      [] word = <<"sat">> -> <<"V", "B", "D">>
      [] word = <<"big">> -> <<"J", "J">>
      [] word = <<"3">> -> <<"C", "D">>
      [] word = <<"the">> -> <<"D", "T">>
      [] word = <<"on">> -> <<"I", "N">>
      [] OTHER -> <<"N", "N", "P">>

keep_tags == {<<"C", "D">>, <<"J", "J">>, <<"N", "N">>, <<"V", "B">>}

RECURSIVE KeepWords(_)
KeepWords(parts) ==
    IF parts = <<>> THEN <<>>
    ELSE (IF \E k \in keep_tags : StartsWith(pos_tag(Head(parts)), k)
          THEN <<Head(parts)>> ELSE <<>>) \o KeepWords(Tail(parts))

\* the author's words appended after the kept words instead of before them
string_to_search_queryAuthorLast(text, author) ==
    Join(KeepWords(word_tokenize(text)) \o (IF author = None THEN <<>> ELSE SplitWS(author)), SP)

\* author is None or a non-empty stripped text
string_to_search_query(text, author) ==
    Join((IF author = None THEN <<>> ELSE SplitWS(author)) \o KeepWords(word_tokenize(text)), SP)

\* speaker = (example.get("speaker") or "").strip() or None
SpeakerOf(example) ==
    IF example.speaker = None \/ Strip(example.speaker) = <<>> THEN None
    ELSE Strip(example.speaker)

\* zip(search_strings, search_types) of one claim
QueriesOf(example) ==
    (IF SpeakerOf(example) # None
     THEN << <<string_to_search_query(example.claim, SpeakerOf(example)), "claim+author">> >>
     ELSE <<>>)
    \o << <<string_to_search_query(example.claim, None), "claim">>,
          <<example.claim, "claim-noformat">> >>
    \o [i \in 1..Len(example.questions) |-> <<example.questions[i], "question">>]

-----------------------------------------------------------------------------
(* Result filter and store path                                             *)

SchemeTokens == {"http://", "https://", "ftp://"}

\* the first character of a token that opens the path, the query or the fragment
OpensPath(t) ==
    t \in {"/", "/page", "/article", "/report", "/a", "/b", "/c", "/glove.", "?q=1",
           "?f=x", "#top", "/pub/cs226/autocomplete/words-333333.txt",
           "/adamrose/Public/googlelist"}

RECURSIVE UpToPath(_)
UpToPath(s) ==
    IF s = <<>> \/ OpensPath(Head(s)) THEN <<>> ELSE <<Head(s)>> \o UpToPath(Tail(s))

HasScheme(url) == \E i \in 1..Len(url) : url[i] \in SchemeTokens

\* urlparse(url).netloc: a scheme is recognised only at the start of the url
netloc(url) ==
    IF url # <<>> /\ Head(url) \in SchemeTokens THEN UpToPath(Tail(url)) ELSE <<>>

get_domain_name(url) ==
    LET u == IF ~HasScheme(url) THEN <<"http://">> \o url ELSE url
        domain == netloc(u)
    IN  IF domain # <<>> /\ Head(domain) = "www." THEN Tail(domain) ELSE domain

blacklist_domains ==
    {<<"jstor.org">>, <<"facebook.com">>, <<"ftp.cs.princeton.edu">>,
     <<"nlp.cs.princeton.edu">>, <<"huggingface.co">>}

blacklist_files ==
    {<<"/glove.">>,
     <<"ftp://", "ftp.cs.princeton.edu", "/pub/cs226/autocomplete/words-333333.txt">>,
     <<"https://", "web.mit.edu", "/adamrose/Public/googlelist">>}

\* bf in link
Contains(s, sub) ==
    \E i \in 1..(Len(s) - Len(sub) + 1) : SubSeq(s, i, i + Len(sub) - 1) = sub

\* str.lower() of one token
Lower(t) ==
    CASE t = ".PDF" -> ".pdf"
      [] t = ".Doc" -> ".doc"
      [] t = ".DOCX" -> ".docx"
      [] t = "Facebook.com" -> "facebook.com"
      [] t = "JSTOR.org" -> "jstor.org"
      [] t = "Misinfo.example" -> "misinfo.example"
      [] OTHER -> t

\* str.lower() of a string
LowerAll(s) == [i \in 1..Len(s) |-> Lower(s[i])]

\* the list read from args.misinfo_file (here: the lines of that file): every
\* non-blank line, stripped and lower-cased.  Nothing below reads it.
misinfo_list ==
    LET kept == SelectSeq(args.misinfo_file, LAMBDA l : Strip(l) # <<>>)
    IN  [i \in 1..Len(kept) |-> LowerAll(Strip(kept[i]))]

BadExtensions == {".pdf", ".doc", ".docx"}

\* the four "continue" tests of the result loop
Rejected(link) ==
    \/ link = <<>>
    \/ get_domain_name(link) \in blacklist_domains
    \/ \E bf \in blacklist_files : Contains(link, bf)
    \/ Lower(link[Len(link)]) \in BadExtensions

store_folder == <<"store/retrieved_docs">>

\* the claim index left out of the file name
StorePathNoIdx(i, n) == store_folder \o <<"/", "search_result_">> \o Str(n) \o <<".store">>

\* os.path.join(args.store_folder, f"search_result_{idx}_{store_counter}.store")
StorePath(i, n) ==
    store_folder \o <<"/", "search_result_">> \o Str(i) \o <<"_">> \o Str(n) \o <<".store">>

-----------------------------------------------------------------------------
(* Resume parsing (module level, before the main loop)                      *)

\* existing[key] = group
Store(map, key, group) ==
    [k \in (DOMAIN map) \cup {key} |-> IF k = key THEN group ELSE map[k]]

\* if next_claim["claim"]: a text that is neither None nor empty
Truthy(text) == text # None /\ text # <<>>

\* the group finalized when a line with another claim text is read
Finalize(map, group) == IF Truthy(group.claim) THEN Store(map, group.claim, group) ELSE map

\* one iteration of "for line in open(args.resume)"
ResumeLine ==
    /\ pc = "resume"
    /\ args.resume
    /\ line_no < Len(resume_file)
    /\ line_no' = line_no + 1
    /\ LET line == resume_file[line_no + 1]
           parts == Split(Strip(line), TAB)
       IN  IF first
           THEN /\ first' = FALSE
                /\ UNCHANGED <<pc, next_claim, existing>>
           ELSE IF Len(parts) < 2
           THEN \* parts[1] raises IndexError
                /\ pc' = "crashed"
                /\ UNCHANGED <<first, next_claim, existing>>
           ELSE /\ IF parts[2] # next_claim.claim
                   THEN /\ existing' = Finalize(existing, next_claim)
                        /\ next_claim' = [claim |-> parts[2], lines |-> <<Strip(line)>>]
                   ELSE /\ existing' = existing
                        /\ next_claim' =
                               [next_claim EXCEPT !.lines = Append(@, Strip(line))]
                /\ UNCHANGED <<pc, first>>
    /\ UNCHANGED <<examples, args, resume_file, env, idx, sort_date, queries, qi, page_num,
                   attempt, pauses, results, visited, store_counter, futures, files, out,
                   calls>>

HeaderLine ==
    Join(<< <<"index">>, <<"claim">>, <<"link">>, <<"page">>, <<"search_string">>,
            <<"search_type">>, <<"store_file">> >>, TAB)

\* a printed line, tagged with what printed it: the claim index and, for a status line,
\* the position of the future in submission order
Printed(kind, i, task, line) == [kind |-> kind, idx |-> i, task |-> task, line |-> line]

\* end of the resume loop (or no --resume): print the header, enter the executor block
StartLoop ==
    /\ pc = "resume"
    /\ ~args.resume \/ line_no = Len(resume_file)
    /\ pc' = "claim"
    /\ idx' = args.start_idx
    /\ out' = Append(out, Printed("header", 0, 0, HeaderLine))
    /\ UNCHANGED <<examples, args, resume_file, env, line_no, first, next_claim, existing,
                   sort_date, queries, qi, page_num, attempt, pauses, results, visited,
                   store_counter, futures, files, calls>>

-----------------------------------------------------------------------------
(* Claim loop                                                               *)

Min(a, b) == IF a <= b THEN a ELSE b

\* examples[start_idx:end_idx]: the index after the last claim of the slice
EndIdx ==
    IF args.n_to_compute = -1 THEN Len(examples)
    ELSE Min(Len(examples), args.start_idx + args.n_to_compute)

\* examples is 0-based in the source
Example(i) == examples[i + 1]

\* the for loop is exhausted: go to the drain loop
EndClaims ==
    /\ pc = "claim"
    /\ idx >= EndIdx
    /\ pc' = "drain"
    /\ UNCHANGED <<examples, args, resume_file, env, line_no, first, next_claim, existing,
                   idx, sort_date, queries, qi, page_num, attempt, pauses, results, visited,
                   store_counter, futures, files, out, calls>>

\* the resume log consulted for no claim
InExistingNever(claim) == FALSE

\* claim in existing
InExisting(claim) == claim \in DOMAIN existing

ReplayLines(i, lines) == [k \in 1..Len(lines) |-> Printed("replay", i, 0, lines[k])]

\* if claim in existing: print its lines; continue
ReplayClaim ==
    /\ pc = "claim"
    /\ idx < EndIdx
    /\ InExisting(Example(idx).claim)
    /\ out' = out \o ReplayLines(idx, existing[Example(idx).claim].lines)
    /\ idx' = idx + 1
    /\ UNCHANGED <<examples, args, resume_file, env, pc, line_no, first, next_claim,
                   existing, sort_date, queries, qi, page_num, attempt, pauses, results,
                   visited, store_counter, futures, files, calls>>

EmptyMap == [k \in {} |-> <<>>]

\* a claim that is not replayed: date ceiling, queries, fresh visited / store_counter
ProcessClaim ==
    /\ pc = "claim"
    /\ idx < EndIdx
    /\ ~InExisting(Example(idx).claim)
    /\ IF DateRaises(Example(idx).check_date)
       THEN /\ pc' = "crashed"
            /\ UNCHANGED <<idx, sort_date, queries, qi, page_num, attempt, pauses, visited,
                           store_counter>>
       ELSE /\ sort_date' = SortDate(Example(idx).check_date)
            /\ queries' = QueriesOf(Example(idx))
            /\ visited' = EmptyMap
            /\ store_counter' = 0
            /\ qi' = 1
            /\ page_num' = 0
            /\ attempt' = 0
            /\ pauses' = 0
            /\ IF args.n_pages = 0
               THEN pc' = "claim" /\ idx' = idx + 1
               ELSE pc' = "search" /\ idx' = idx
    /\ UNCHANGED <<examples, args, resume_file, env, line_no, first, next_claim, existing,
                   results, futures, files, out, calls>>

-----------------------------------------------------------------------------
(* get_google_search_results: up to three attempts, sleep(3) after a failure *)

MaxAttempts == 3

ProviderError == [ok |-> FALSE, items |-> <<>>]

\* what one google_search call may do: return a result list, or raise
ProviderOutcomes ==
    {[ok |-> TRUE, items |-> l] : l \in env.web}
        \cup (IF env.flaky THEN {ProviderError} ELSE {})

\* the loop bound lost: only a success ends the call
CallReturnsOnSuccessOnly(o, made) == o.ok

\* the call returns after this attempt: a success, or the last failed attempt
CallReturns(o, made) == o.ok \/ made + 1 >= MaxAttempts

\* sleep(3) runs in the except branch of every failed attempt
PausesAfter(o, n) == IF o.ok THEN n ELSE n + 1

\* one iteration of "for _ in range(3)" inside the call made for (qi, page_num)
SearchAttempt ==
    /\ pc = "search"
    /\ \E o \in ProviderOutcomes :
        /\ attempt' = attempt + 1
        /\ pauses' = PausesAfter(o, pauses)
        /\ IF CallReturns(o, attempt)
           THEN /\ results' = o.items
                /\ pc' = "results"
                /\ calls' = Append(calls, <<idx, qi, page_num>>)
           ELSE UNCHANGED <<results, pc, calls>>
    /\ UNCHANGED <<examples, args, resume_file, env, line_no, first, next_claim, existing,
                   idx, sort_date, queries, qi, page_num, visited, store_counter, futures,
                   files, out>>

-----------------------------------------------------------------------------
(* Result loop: filter, dedup, submit, print                                *)

\* the lookup in visited left out: every occurrence gets a new path
DedupNoLookup(vis, counter, i, link) ==
    [path |-> StorePath(i, counter + 1), new |-> TRUE, counter |-> counter + 1,
     visited |-> Store(vis, link, StorePath(i, counter + 1))]

\* visited / store_counter: the path of a link, new or already assigned
Dedup(vis, counter, i, link) ==
    IF link \in DOMAIN vis
    THEN [path |-> vis[link], new |-> FALSE, counter |-> counter, visited |-> vis]
    ELSE [path |-> StorePath(i, counter + 1), new |-> TRUE, counter |-> counter + 1,
          visited |-> Store(vis, link, StorePath(i, counter + 1))]

\* executor.submit(get_and_store, link, store_file_path) and its future_to_meta entry
Task(link, path) ==
    [url |-> link, fp |-> path, st |-> "queued", ok |-> FALSE, msg |-> <<>>,
     exc |-> FALSE, reported |-> FALSE,
     meta |-> [idx |-> idx, claim |-> Example(idx).claim, page_num |-> page_num,
               sstr |-> queries[qi][1], stype |-> queries[qi][2], store_fp |-> path]]

\* the submit moved out of the else branch: every accepted occurrence submits
SubmitAlways(fs, link, d) == Append(fs, Task(link, d.path))

\* futures after the result loop has handled a link with dedup outcome d
Submit(fs, link, d) == IF d.new THEN Append(fs, Task(link, d.path)) ELSE fs

\* the query type printed before the query
RecordLineTypeFirst(i, claim, link, page, sstr, stype, path) ==
    Join(<<Str(i), claim, link, Str(page), <<stype>>, sstr, path>>, TAB)

\* "\t".join([str(idx), claim, link, str(page_num), search string, search type, path])
RecordLine(i, claim, link, page, sstr, stype, path) ==
    Join(<<Str(i), claim, link, Str(page), sstr, <<stype>>, path>>, TAB)

\* one iteration of "for result in results"
ResultStep ==
    /\ pc = "results"
    /\ results # <<>>
    /\ results' = Tail(results)
    /\ LET link == Head(results)
           d == Dedup(visited, store_counter, idx, link)
       IN  IF Rejected(link)
           THEN UNCHANGED <<visited, store_counter, futures, out>>
           ELSE /\ visited' = d.visited
                /\ store_counter' = d.counter
                /\ futures' = Submit(futures, link, d)
                /\ out' = Append(out,
                       Printed("record", idx, 0,
                           RecordLine(idx, Example(idx).claim, link, page_num,
                                      queries[qi][1], queries[qi][2], d.visited[link])))
    /\ UNCHANGED <<examples, args, resume_file, env, pc, line_no, first, next_claim,
                   existing, idx, sort_date, queries, qi, page_num, attempt, pauses, files,
                   calls>>

\* the result loop is exhausted: next page, next query, or next claim
NextSearch ==
    /\ pc = "results"
    /\ results = <<>>
    /\ attempt' = 0
    /\ pauses' = 0
    /\ IF page_num + 1 < args.n_pages
       THEN /\ page_num' = page_num + 1
            /\ pc' = "search"
            /\ UNCHANGED <<qi, idx>>
       ELSE IF qi < Len(queries)
       THEN /\ qi' = qi + 1
            /\ page_num' = 0
            /\ pc' = "search"
            /\ UNCHANGED idx
       ELSE /\ idx' = idx + 1
            /\ pc' = "claim"
            /\ UNCHANGED <<qi, page_num>>
    /\ UNCHANGED <<examples, args, resume_file, env, line_no, first, next_claim, existing,
                   sort_date, queries, results, visited, store_counter, futures, files, out,
                   calls>>

-----------------------------------------------------------------------------
(* ProcessPoolExecutor(max_workers=MAX_WORKERS) running get_and_store        *)

MAX_WORKERS == 8

Running == {i \in 1..Len(futures) : futures[i].st = "running"}

\* the free-worker test off by one
WorkerFreeOneMore(busy) == busy <= MAX_WORKERS

\* the executor hands a queued call to a worker only while a worker is free
WorkerFree(busy) == busy < MAX_WORKERS

\* work items leave the queue in submission order
WorkerStart ==
    /\ \E i \in 1..Len(futures) :
        /\ futures[i].st = "queued"
        /\ \A j \in 1..(i - 1) : futures[j].st # "queued"
        /\ WorkerFree(Cardinality(Running))
        /\ futures' = [futures EXCEPT ![i].st = "running"]
    /\ UNCHANGED <<examples, args, resume_file, env, pc, line_no, first, next_claim,
                   existing, idx, sort_date, queries, qi, page_num, attempt, pauses, results,
                   visited, store_counter, files, out, calls>>

\* get_and_store without its try/except: the extractor's error leaves the call
get_and_storeUncaught(url_link, fp, o) ==
    IF o.kind = "raise"
    THEN [raised |-> TRUE, fp |-> fp, url |-> url_link, ok |-> FALSE,
          msg |-> o.text, written |-> FALSE, text |-> <<>>]
    ELSE [raised |-> FALSE, fp |-> fp, url |-> url_link, ok |-> TRUE, msg |-> <<"ok">>,
          written |-> TRUE,
          text |-> Join(<<url_link>> \o (IF o.kind = "lines" THEN o.lines ELSE <<o.lines>>),
                        "\n")]

\* get_and_store with the PageExtractor doing o: the returned tuple, the text written,
\* and whether the call itself raised (it catches Exception, so it never does)
get_and_store(url_link, fp, o) ==
    IF o.kind = "raise"
    THEN [raised |-> FALSE, fp |-> fp, url |-> url_link, ok |-> FALSE,
          msg |-> <<o.type, ":", SP>> \o o.text, written |-> FALSE, text |-> <<>>]
    ELSE [raised |-> FALSE, fp |-> fp, url |-> url_link, ok |-> TRUE, msg |-> <<"ok">>,
          written |-> TRUE,
          text |-> Join(<<url_link>> \o (IF o.kind = "lines" THEN o.lines ELSE <<o.lines>>),
                        "\n")]

\* a worker runs get_and_store to its end and the future gets its result
WorkerFinish ==
    /\ \E i \in Running : \E o \in env.extractor :
        LET r == get_and_store(futures[i].url, futures[i].fp, o)
        IN  /\ futures' = [futures EXCEPT ![i].st = "done", ![i].ok = r.ok,
                                          ![i].msg = r.msg, ![i].exc = r.raised]
            /\ files' = IF r.written THEN files \cup {[fp |-> r.fp, text |-> r.text, by |-> i]}
                        ELSE files
    /\ UNCHANGED <<examples, args, resume_file, env, pc, line_no, first, next_claim,
                   existing, idx, sort_date, queries, qi, page_num, attempt, pauses, results,
                   visited, store_counter, out, calls>>

\* the line the drain loop prints for a completed future
StatusLine(t) ==
    IF t.exc
    THEN <<"[EXC]", SP>> \o Str(t.meta.idx) \o <<SP, "|", SP>> \o t.meta.store_fp
             \o <<SP, "->", SP>> \o t.msg
    ELSE IF t.ok
    THEN <<"[OK]", SP>> \o Str(t.meta.idx) \o <<SP, "|", SP>> \o t.url
             \o <<SP, "->", SP, "salvo", SP, "em", SP>> \o t.fp
    ELSE <<"[FAIL]", SP>> \o Str(t.meta.idx) \o <<SP, "|", SP>> \o t.url
             \o <<SP, "->", SP>> \o t.msg

\* the drain loop moved into the claim loop: it also runs between two claims
DrainReachedPerClaim == pc \in {"claim", "drain"}

\* the drain loop stands after the claim loop, inside the executor block
DrainReached == pc = "drain"

\* one iteration of "for fut in as_completed(future_to_meta)"
DrainOne ==
    /\ DrainReached
    /\ \E i \in 1..Len(futures) :
        /\ futures[i].st = "done"
        /\ ~futures[i].reported
        /\ futures' = [futures EXCEPT ![i].reported = TRUE]
        /\ out' = Append(out, Printed("status", futures[i].meta.idx, i, StatusLine(futures[i])))
    /\ UNCHANGED <<examples, args, resume_file, env, pc, line_no, first, next_claim,
                   existing, idx, sort_date, queries, qi, page_num, attempt, pauses, results,
                   visited, store_counter, files, calls>>

FinalLine == <<"Finalizado", SP, "com", SP, "sucesso.">>

\* as_completed is exhausted, the executor block exits, the final line is printed
Finish ==
    /\ pc = "drain"
    /\ \A i \in 1..Len(futures) : futures[i].reported
    /\ pc' = "done"
    /\ out' = Append(out, Printed("final", 0, 0, FinalLine))
    /\ UNCHANGED <<examples, args, resume_file, env, line_no, first, next_claim, existing,
                   idx, sort_date, queries, qi, page_num, attempt, pauses, results, visited,
                   store_counter, futures, files, calls>>

-----------------------------------------------------------------------------
(* Inputs                                                                   *)

TextA == <<"cat", SP, "sat">>
TextB == <<"the", SP, "big", SP, "mats">>
Speaker == <<"John", SP, "Smith">>
Question == <<"who", SP, "sat", "?">>

DateGood == <<"2", "2", "-", "3", "-", "4">>
DateBad == <<"b", "a", "d", "-", "d", "a", "t", "e">>
DateCrash == <<"a", "b", "-", "1", "-", "1">>

ExA == [claim |-> TextA, speaker |-> None, check_date |-> DateGood, questions |-> <<>>]
ExB == [claim |-> TextB, speaker |-> None, check_date |-> DateBad, questions |-> <<>>]
ExC == [claim |-> TextB, speaker |-> None, check_date |-> DateCrash, questions |-> <<>>]

U1 == <<"http://", "example.com", "/article">>
U2 == <<"example.org", "/a">>
UFacebook == <<"https://", "www.", "facebook.com", "/page">>
UPdf == <<"http://", "example.com", "/report", ".PDF">>

\* the misinfo file: a padded mixed-case domain and a blank line
MisinfoLines == <<<<SP, "Misinfo.example", SP>>, <<SP>>>>

\* what the search provider may return for a call
Web == {<<>>, <<U1, U2>>, <<UFacebook, U1, UPdf>>}

ExtractorLines == [kind |-> "lines", lines |-> << <<"text">> >>, type |-> "", text |-> <<>>]
ExtractorRaises ==
    [kind |-> "raise", lines |-> <<>>, type |-> "ValueError", text |-> <<"bad", SP, "page">>]

\* what url2lines may do for a url
Extractor == {ExtractorLines, ExtractorRaises}

\* lines of a previous run's output for claim text c
OldLine(i, c, link, n) ==
    RecordLine(i, c, link, 0, c, "claim-noformat", StorePath(i, n))

ResumeFiles ==
    {<<HeaderLine, OldLine(0, TextA, U1, 1), OldLine(0, TextA, U2, 2),
       OldLine(1, TextB, U1, 1)>>}

InitRun ==
    /\ pc = "resume"
    /\ line_no = 0
    /\ first = TRUE
    /\ next_claim = [claim |-> None, lines |-> <<>>]
    /\ existing = EmptyMap
    /\ idx = 0
    /\ sort_date = <<>>
    /\ queries = <<>>
    /\ qi = 0
    /\ page_num = 0
    /\ attempt = 0
    /\ pauses = 0
    /\ results = <<>>
    /\ visited = EmptyMap
    /\ store_counter = 0
    /\ futures = <<>>
    /\ files = {}
    /\ out = <<>>
    /\ calls = <<>>

Init ==
    /\ InitRun
    /\ examples \in {<<ExA, ExB>>, <<ExA, ExC>>, <<ExA, ExA>>}
    /\ \E r \in BOOLEAN :
        args = [n_pages |-> 1, start_idx |-> 0, n_to_compute |-> -1, resume |-> r,
                misinfo_file |-> MisinfoLines]
    /\ resume_file \in ResumeFiles
    /\ env = [web |-> Web, flaky |-> TRUE, extractor |-> Extractor]

Next ==
    \/ ResumeLine
    \/ StartLoop
    \/ EndClaims
    \/ ReplayClaim
    \/ ProcessClaim
    \/ SearchAttempt
    \/ ResultStep
    \/ NextSearch
    \/ WorkerStart
    \/ WorkerFinish
    \/ DrainOne
    \/ Finish

Spec == Init /\ [][Next]_vars

-----------------------------------------------------------------------------
(* The claim loop on its own, over several pages per query.  The workers    *)
(* change only the state, result and file of a submitted task, which the    *)
(* claim loop never reads, so they are left out here.                       *)

MaxPages == 2

\* one result page: an accepted link, a rejected one, a second link, the first again
LoopPage == <<U1, UFacebook, U2, U1>>

InitLoop ==
    /\ InitRun
    /\ examples \in {<<ExA, ExB>>, <<ExA, ExC>>}
    /\ \E n \in 1..MaxPages, r \in BOOLEAN :
        args = [n_pages |-> n, start_idx |-> 0, n_to_compute |-> -1, resume |-> r,
                misinfo_file |-> MisinfoLines]
    /\ resume_file \in ResumeFiles
    /\ env = [web |-> {LoopPage}, flaky |-> TRUE, extractor |-> Extractor]

NextLoop ==
    \/ ResumeLine
    \/ StartLoop
    \/ EndClaims
    \/ ReplayClaim
    \/ ProcessClaim
    \/ SearchAttempt
    \/ ResultStep
    \/ NextSearch

SpecLoop == InitLoop /\ [][NextLoop]_vars

-----------------------------------------------------------------------------
(* Date ceiling on its own: one claim, check_date drawn from DateInputs     *)

MaxDateParts == 4

DatePieces ==
    {<<>>, <<"1">>, <<"3">>, <<"4">>, <<"2", "2">>, <<"3", "0">>, <<"3", "1">>, <<"a", "b">>,
     <<"2", "0", "3">>, <<"2", "0", "2", "0">>, <<"2", "0", "2", "0", "1">>}

SeqsUpTo(S, n) == UNION {[1..k -> S] : k \in 1..n}

\* missing, "bad-date", and every "-"-joined sequence of one to MaxDateParts pieces
DateInputs == {None, DateBad} \cup {Join(ps, "-") : ps \in SeqsUpTo(DatePieces, MaxDateParts)}

InitDate ==
    /\ InitRun
    /\ \E d \in DateInputs :
        examples = <<[claim |-> TextA, speaker |-> None, check_date |-> d,
                      questions |-> <<>>]>>
    /\ args = [n_pages |-> 1, start_idx |-> 0, n_to_compute |-> -1, resume |-> FALSE,
            misinfo_file |-> MisinfoLines]
    /\ resume_file = <<>>
    /\ env = [web |-> Web, flaky |-> TRUE, extractor |-> Extractor]

NextDate == StartLoop \/ ProcessClaim

SpecDate == InitDate /\ [][NextDate]_vars

\* the first claim's date step has run: the loop searches, or the run has aborted
DateStepDone == Len(examples) = 1 /\ idx = 0 /\ pc \in {"search", "crashed"}

TheDate == examples[1].check_date

Malformed(d) ==
    \/ d = None
    \/ Len(Split(d, "-")) # 3
    \/ \E k \in 1..Len(Split(d, "-")) : ~IsDigits(Split(d, "-")[k])

Fallback == <<"2", "0", "2", "2", "0", "1", "0", "1">>

\* C9 (as stated): for every malformed check_date (no delimiter, not three parts,
\* a non-numeric part, or missing) the date step raises nothing and the date ceiling
\* is the fallback "20220101".
C9_MalformedDateGivesFallback ==
    (DateStepDone /\ Malformed(TheDate)) => (pc = "search" /\ sort_date = Fallback)

\* the year the claim gives for a numeric year part
ClaimedYear(y) ==
    IF Len(y) = 1 THEN <<"2", "0", "0">> \o y
    ELSE IF Len(y) = 2 /\ IntOf(y) <= 30 THEN <<"2", "0">> \o y
    ELSE IF Len(y) = 2 THEN <<"1", "9">> \o y
    ELSE y

ClaimedPad(s) == IF Len(s) = 1 THEN <<"0">> \o s ELSE s

\* C10: for a check_date of three numeric parts year-month-day with a year of 1, 2 or
\* at least 4 digits, the date ceiling is year' + month' + day' (year expanded by
\* "200" / "20" if <= 30 / "19" if > 30 / unchanged, month and day left-padded to two
\* digits); "22-3-4" gives "20220304", "1-1-1" gives "20010101", "bad-date" gives
\* "20220101".
C10_NumericDateNormalized ==
    DateStepDone =>
        LET parts == Split(TheDate, "-")
        IN  /\ (/\ TheDate # None
                /\ Len(parts) = 3
                /\ \A k \in 1..3 : IsDigits(parts[k])
                /\ Len(parts[1]) # 3)
               => (/\ pc = "search"
                   /\ sort_date = ClaimedYear(parts[1]) \o ClaimedPad(parts[2])
                                      \o ClaimedPad(parts[3]))
            /\ TheDate = DateGood => sort_date = <<"2", "0", "2", "2", "0", "3", "0", "4">>
            /\ TheDate = <<"1", "-", "1", "-", "1">>
                   => sort_date = <<"2", "0", "0", "1", "0", "1", "0", "1">>
            /\ TheDate = DateBad => sort_date = Fallback

C10_Witness ==
    /\ DateStepDone
    /\ pc = "search"
    /\ TheDate = <<"3", "1", "-", "3", "-", "2", "2">>
    /\ sort_date = <<"1", "9", "3", "1", "0", "3", "2", "2">>

-----------------------------------------------------------------------------
(* The pool under load: one claim whose result page holds more links than   *)
(* the pool has workers.  The drain loop only marks finished futures as     *)
(* reported and prints; it is left out here, the workers keep running after *)
(* the claim loop has ended.                                                *)

ExtraTasks == 1

PoolPage ==
    [k \in 1..(MAX_WORKERS + ExtraTasks) |-> <<"http://", "example.com", "/a">> \o Str(k)]

InitPool ==
    /\ InitRun
    /\ examples = <<ExA>>
    /\ args = [n_pages |-> 1, start_idx |-> 0, n_to_compute |-> -1, resume |-> FALSE,
            misinfo_file |-> MisinfoLines]
    /\ resume_file = <<>>
    /\ env = [web |-> {PoolPage}, flaky |-> FALSE, extractor |-> {ExtractorLines}]

NextPool ==
    \/ StartLoop
    \/ ProcessClaim
    \/ SearchAttempt
    \/ ResultStep
    \/ NextSearch
    \/ EndClaims
    \/ WorkerStart
    \/ WorkerFinish

SpecPool == InitPool /\ [][NextPool]_vars

Queued == {i \in 1..Len(futures) : futures[i].st = "queued"}
Done == {i \in 1..Len(futures) : futures[i].st = "done"}

\* C5: with MAX_WORKERS = 8 workers and more than 8 submitted fetch tasks, at most 8
\* tasks are executing in every reachable state, and every other submitted task that
\* has not finished waits in the queue.
C5_AtMostMaxWorkersRunning ==
    /\ Cardinality(Running) <= MAX_WORKERS
    /\ \A i \in 1..Len(futures) : i \notin Running => (i \in Queued \/ i \in Done)

C5_Witness ==
    /\ Len(futures) > MAX_WORKERS
    /\ Cardinality(Running) = MAX_WORKERS
    /\ Queued # {}

-----------------------------------------------------------------------------
(* What a run has done, read from the output and the histories              *)

\* the fields of a printed record line
Fields(line) == Split(line, TAB)

ReplayOf(i) ==
    LET sel == SelectSeq(out, LAMBDA r : r.kind = "replay" /\ r.idx = i)
    IN  [k \in 1..Len(sel) |-> sel[k].line]

RecordsOf(i) ==
    LET sel == SelectSeq(out, LAMBDA r : r.kind = "record" /\ r.idx = i)
    IN  [k \in 1..Len(sel) |-> sel[k].line]

CallsOf(i) == SelectSeq(calls, LAMBDA c : c[1] = i)

TasksOf(i) == {k \in 1..Len(futures) : futures[k].meta.idx = i}

\* every (query, page) of claim i, queries outermost
AllCalls(i) ==
    LET nq == Len(QueriesOf(Example(i)))
        np == args.n_pages
    IN  [k \in 1..(nq * np) |-> <<i, ((k - 1) \div np) + 1, (k - 1) % np>>]

Processed(i) == CallsOf(i) # <<>> \/ RecordsOf(i) # <<>> \/ TasksOf(i) # {}

\* the resume loop has read the whole file
ParseDone == args.resume /\ pc # "resume" /\ line_no = Len(resume_file)

\* the lines after the first that have a second field, and that field
ResumeRecords == {k \in 2..Len(resume_file) : Len(Fields(Strip(resume_file[k]))) >= 2}
ClaimTextAt(k) == Fields(Strip(resume_file[k]))[2]

\* the stripped lines of the file whose second field is c, in file order
LinesFor(c) ==
    LET stripped == [k \in 1..(Len(resume_file) - 1) |-> Strip(resume_file[k + 1])]
    IN  SelectSeq(stripped, LAMBDA l : Len(Fields(l)) >= 2 /\ Fields(l)[2] = c)

\* C1 (as stated): every claim text that is the second field of a record line of the
\* resume input, wherever its group is in the file, has a group in existing holding its
\* lines, and a claim with that text is replayed with exactly these lines and is not
\* processed.
C1_EveryResumeClaimReplayed ==
    ParseDone =>
        \A k \in ResumeRecords :
            /\ ClaimTextAt(k) \in DOMAIN existing
            /\ existing[ClaimTextAt(k)].lines = LinesFor(ClaimTextAt(k))
            /\ \A i \in args.start_idx..(idx - 1) :
                   Example(i).claim = ClaimTextAt(k)
                       => (ReplayOf(i) = LinesFor(ClaimTextAt(k)) /\ ~Processed(i))

\* C2: no claim has both replayed lines and processing (search call, record line, fetch
\* task); every claim the loop has finished with was either replayed with all lines of
\* its group and nothing else, or searched for every query and page with no replayed
\* line.
C2_ReplayedOrProcessed ==
    \A i \in 0..(Len(examples) - 1) :
        /\ ~(ReplayOf(i) # <<>> /\ Processed(i))
        /\ (pc # "resume" /\ args.start_idx <= i /\ i < idx) =>
               IF Example(i).claim \in DOMAIN existing
               THEN ReplayOf(i) = existing[Example(i).claim].lines /\ ~Processed(i)
               ELSE ReplayOf(i) = <<>> /\ CallsOf(i) = AllCalls(i)

C2_Witness ==
    /\ pc = "drain"
    /\ \E i, j \in 0..(Len(examples) - 1) :
        /\ ReplayOf(i) # <<>>
        /\ ~Processed(i)
        /\ ReplayOf(j) = <<>>
        /\ CallsOf(j) = AllCalls(j)
        /\ RecordsOf(j) # <<>>

RecordIdx == {k \in 1..Len(out) : out[k].kind = "record"}
LinkAt(k) == Fields(out[k].line)[3]
PathAt(k) == Fields(out[k].line)[7]

\* two printed occurrences of one link within one claim
DuplicateOccurrence ==
    \E k1, k2 \in RecordIdx : k1 # k2 /\ out[k1].idx = out[k2].idx /\ LinkAt(k1) = LinkAt(k2)

\* the printed record lines as (claim index, link, path)
Occurrences == {<<out[k].idx, LinkAt(k), PathAt(k)>> : k \in RecordIdx}

C3_State ==
    /\ \A l1, l2 \in DOMAIN visited : l1 # l2 => visited[l1] # visited[l2]
    /\ LET occ == Occurrences
       IN  /\ \A a, b \in occ : a[1] = b[1] => ((a[2] = b[2]) <=> (a[3] = b[3]))
           /\ \A a \in occ :
                  (a[1] = idx /\ pc \in {"search", "results"}) => visited[a[2]] = a[3]

C3_Step ==
    /\ (pc = "claim" /\ pc' = "search") => (visited' = EmptyMap /\ store_counter' = 0)
    /\ (pc \in {"search", "results"} /\ pc' \in {"search", "results"}) =>
           /\ store_counter' >= store_counter
           /\ \A l \in DOMAIN visited : l \in DOMAIN visited' /\ visited'[l] = visited[l]

\* C3: within one claim every printed occurrence of a link carries the path of its first
\* occurrence and two different links never carry the same path, over all queries and
\* pages; visited and store_counter are empty / zero when a claim's processing starts
\* and, within the claim, visited only grows and store_counter never decreases.
C3_DedupStable == []C3_State /\ [][C3_Step]_vars

C3_Witness ==
    /\ idx = 1
    /\ pc = "results"
    /\ Cardinality(DOMAIN visited) = 2
    /\ \E k1, k2 \in RecordIdx :
        k1 # k2 /\ out[k1].idx = 1 /\ out[k2].idx = 1 /\ LinkAt(k1) = LinkAt(k2)
    /\ Len(CallsOf(1)) = 2

C4_State ==
    /\ \A i, j \in 1..Len(futures) :
           (futures[i].meta.idx = futures[j].meta.idx /\ futures[i].url = futures[j].url)
               => i = j
    /\ {<<futures[i].meta.idx, futures[i].url>> : i \in 1..Len(futures)}
           = {<<a[1], a[2]>> : a \in Occurrences}

\* a step of the result loop on an accepted link
AcceptStep == pc = "results" /\ results # <<>> /\ results' # results /\ ~Rejected(Head(results))

C4_Step ==
    /\ (AcceptStep /\ Head(results) \in DOMAIN visited) => Len(futures') = Len(futures)
    /\ (AcceptStep /\ Head(results) \notin DOMAIN visited) =>
           /\ Len(futures') = Len(futures) + 1
           /\ futures'[Len(futures')].url = Head(results)
           /\ futures'[Len(futures')].meta.idx = idx
           /\ futures'[Len(futures')].st = "queued"
    /\ ~AcceptStep => Len(futures') = Len(futures)

\* C4: no two submitted fetch tasks have the same (claim index, link); the submitted
\* pairs are exactly the accepted (claim index, link) pairs; a task is submitted by the
\* step that accepts a link for the first time in its claim, and by no other step.
C4_OneTaskPerClaimAndLink == []C4_State /\ [][C4_Step]_vars

C4_Witness ==
    /\ DuplicateOccurrence
    /\ Len(futures) >= 2
    /\ pc = "drain"

StatusOf(i) == {k \in 1..Len(out) : out[k].kind = "status" /\ out[k].task = i}

\* the process has ended: normally, or by an uncaught error after the executor block
\* has waited for its workers
Exited ==
    \/ pc = "done"
    \/ pc = "crashed" /\ \A i \in 1..Len(futures) : futures[i].st = "done"

\* C6 (as stated, its safety part): no fetch task gets more than one status line, the
\* process does not end while a submitted task is queued or running, and when it has
\* ended every submitted task has exactly one status line.
C6_EveryTaskReportedAtExit ==
    /\ \A i \in 1..Len(futures) : Cardinality(StatusOf(i)) <= 1
    /\ Exited => \A i \in 1..Len(futures) :
                     futures[i].st = "done" /\ Cardinality(StatusOf(i)) = 1

\* the message of a failure outcome: the error's category name, ": ", its text
FailureMessages ==
    {<<o.type, ":", SP>> \o o.text : o \in {x \in env.extractor : x.kind = "raise"}}

C7_State ==
    /\ \A i \in 1..Len(futures) :
           /\ futures[i].fp = futures[i].meta.store_fp
           /\ futures[i].st = "done" =>
                  /\ ~futures[i].exc
                  /\ futures[i].ok \/ futures[i].msg \in FailureMessages
    /\ pc = "done" =>
           \A i \in 1..Len(futures) :
               /\ futures[i].st = "done"
               /\ \E k \in 1..Len(out) :
                      /\ StatusOf(i) = {k}
                      /\ Head(out[k].line) = (IF futures[i].ok THEN "[OK]" ELSE "[FAIL]")

\* a worker ends a task with a failure outcome
FailStep(i) ==
    /\ i <= Len(futures)
    /\ futures[i].st = "running"
    /\ futures'[i].st = "done"
    /\ ~futures'[i].ok

C7_Step ==
    \A i \in 1..Len(futures) :
        FailStep(i) =>
            /\ Len(futures') = Len(futures)
            /\ \A j \in 1..Len(futures) : j # i => futures'[j] = futures[j]
            /\ futures'[i].fp = futures[i].fp
            /\ <<pc, idx, qi, page_num, results, visited, store_counter, files, out>>'
                   = <<pc, idx, qi, page_num, results, visited, store_counter, files, out>>

\* C7: a task whose extractor raises ends with a failure outcome (flag false, message
\* "<category>: <text>") and not with an exception; that step changes no other task,
\* no store path, no file and nothing of the claim loop or drain loop; in a finished
\* run every task, failed or not, has its own status line ([FAIL] for a failed one).
C7_FailureIsolated == []C7_State /\ [][C7_Step]_vars

C7_Witness ==
    /\ pc = "done"
    /\ \E i, j \in 1..Len(futures) : ~futures[i].ok /\ futures[j].ok /\ i < j

C8_State ==
    /\ pc = "search" => attempt < 3
    /\ attempt <= 3
    /\ (pc = "results" /\ attempt = 3 /\ pauses = 3) => results = <<>>

C8_Step ==
    /\ pc = "search" =>
           \/ UNCHANGED <<pc, attempt, pauses, results, calls>>
           \/ /\ attempt' = attempt + 1
              /\ pauses' \in {pauses, pauses + 1}
              \* a successful attempt ends the call with its results
              /\ pauses' = pauses => (pc' = "results" /\ results' \in env.web)
              \* a failed attempt is retried unless it was the third
              /\ (pauses' = pauses + 1 /\ attempt < 2) => pc' = "search"
              /\ (pauses' = pauses + 1 /\ attempt = 2) => (pc' = "results" /\ results' = <<>>)
    \* after the call the loop goes on: next page, next query, or next claim
    /\ (pc = "results" /\ results = <<>> /\ pc' # pc) =>
           \/ pc' = "search" /\ idx' = idx /\ qi' = qi /\ page_num' = page_num + 1
           \/ pc' = "search" /\ idx' = idx /\ qi' = qi + 1 /\ page_num' = 0
           \/ pc' = "claim" /\ idx' = idx + 1 /\ qi = Len(queries)
                  /\ page_num + 1 = args.n_pages

\* C8: a search call makes at most 3 attempts; a successful attempt ends it with that
\* attempt's results; a failed first or second attempt is followed by another attempt;
\* a failed third attempt ends the call with an empty list and no error, and the loop
\* then goes on to the next page, the next query or the next claim.
C8_ThreeAttemptsThenEmpty == []C8_State /\ [][C8_Step]_vars

\* every call of claim 0 was exhausted (the provider's only page holds accepted links, so
\* a claim searched in full without a record line had only failed calls), and the loop
\* is examining results of claim 1
C8_Witness ==
    /\ idx = 1
    /\ pc = "results"
    /\ results # <<>>
    /\ ReplayOf(0) = <<>>
    /\ CallsOf(0) = AllCalls(0)
    /\ RecordsOf(0) = <<>>
    /\ args.n_pages = MaxPages

-----------------------------------------------------------------------------
(* The result filter on its own: one claim, every search returning one page *)
(* that holds one link drawn from FilterLinks                               *)

FilterSchemes == {<<>>, <<"http://">>, <<"https://">>}

FilterHosts ==
    {<<"example.com">>, <<"facebook.com">>, <<"Facebook.com">>, <<"www.", "jstor.org">>,
     <<"www.", "JSTOR.org">>, <<"misinfo.example">>, <<"www.", "Misinfo.example">>}

\* nothing, a path, a path with an extension, and a query string or a fragment after it
FilterTails ==
    {<<>>, <<"/page">>, <<"/article">>, <<"/report", ".PDF">>, <<"/report", ".pdf", "?q=1">>,
     <<"/article", "?f=x", ".pdf">>, <<"/report", ".docx", "#top">>,
     <<"/article", "#top", ".doc">>}

FilterLinks == {s \o h \o t : s \in FilterSchemes, h \in FilterHosts, t \in FilterTails}

InitFilter ==
    /\ InitRun
    /\ examples = <<ExA>>
    /\ args = [n_pages |-> 1, start_idx |-> 0, n_to_compute |-> -1, resume |-> FALSE,
            misinfo_file |-> MisinfoLines]
    /\ resume_file = <<>>
    /\ \E l \in FilterLinks : env = [web |-> {<<l>>}, flaky |-> FALSE, extractor |-> Extractor]

NextFilter ==
    \/ StartLoop
    \/ EndClaims
    \/ ProcessClaim
    \/ SearchAttempt
    \/ ResultStep
    \/ NextSearch

SpecFilter == InitFilter /\ [][NextFilter]_vars

\* the links the search provider can return
WebLinks == UNION {{page[k] : k \in 1..Len(page)} : page \in env.web}

\* the link has a record line, a store path or a fetch task
Kept(link) ==
    \/ \E k \in RecordIdx : LinkAt(k) = link
    \/ link \in DOMAIN visited
    \/ \E k \in 1..Len(futures) : futures[k].url = link

\* the domain of the link, lower-cased, is in the built-in list or in the loaded list
ListedDomain(link) ==
    LowerAll(get_domain_name(link))
        \in blacklist_domains \cup {misinfo_list[i] : i \in 1..Len(misinfo_list)}

\* C11 (as stated): a result whose domain (scheme defaulted to http, leading "www."
\* stripped) equals, case-insensitively, an entry of the built-in domain blacklist or
\* an entry loaded from the blacklist source file is rejected: it never has an output
\* line, a store path or a fetch task.
C11_ListedDomainRejected == \A link \in WebLinks : ListedDomain(link) => ~Kept(link)

\* every call of the run has returned the one page there is and its results are examined
FilterDone == pc = "drain" /\ ~env.flaky /\ Cardinality(env.web) = 1

StartsQuery(t) == t \in {"?q=1", "?f=x", "#top"}

RECURSIVE UpToQuery(_)
UpToQuery(s) ==
    IF s = <<>> \/ StartsQuery(Head(s)) THEN <<>> ELSE <<Head(s)>> \o UpToQuery(Tail(s))

\* the path component of the link, its scheme defaulted to http
PathOf(link) ==
    LET u == IF ~HasScheme(link) THEN <<"http://">> \o link ELSE link
    IN  UpToQuery(SubSeq(u, 2 + Len(netloc(u)), Len(u)))

PathEndsBad(link) ==
    PathOf(link) # <<>> /\ Lower(PathOf(link)[Len(PathOf(link))]) \in BadExtensions

\* one of the other three tests of the filter rejects the link
OtherRuleRejects(link) ==
    \/ link = <<>>
    \/ get_domain_name(link) \in blacklist_domains
    \/ \E bf \in blacklist_files : Contains(link, bf)

\* C12 (as stated): the extension rule looks at the path component only: a result the
\* other rules let through is rejected when its path ends, case-insensitively, with
\* .pdf, .doc or .docx, whatever query string or fragment follows, and is accepted,
\* its link printed unchanged, when the path does not end so.
C12_ExtensionByPathOnly ==
    FilterDone =>
        \A link \in WebLinks :
            ~OtherRuleRejects(link) =>
                (PathEndsBad(link) <=> ~(\E k \in RecordIdx : LinkAt(k) = link))

-----------------------------------------------------------------------------
(* Query generation on its own: one claim whose text, speaker and questions *)
(* are drawn from bounded sets                                              *)

MaxWords == 3

\* tagged NN, VBD, JJ, CD, DT and NNP
QueryWords == {<<"cat">>, <<"sat">>, <<"big">>, <<"3">>, <<"the">>, <<"Rome">>}

\* the words joined by single spaces, bare or padded with whitespace
QueryTexts ==
    LET bare == {<<>>} \cup {Join(ws, SP) : ws \in SeqsUpTo(QueryWords, MaxWords)}
    IN  bare \cup {<<SP>> \o t \o <<SP>> : t \in bare}

QuerySpeakers == {None, <<>>, <<SP>>, Speaker, <<SP, "John", SP, SP, "Smith", SP>>}

Question2 == <<SP, "where", "?">>

QueryQuestions == {<<>>, <<Question>>, <<Question, Question2>>, <<Question2, Question>>}

InitQuery ==
    /\ InitRun
    /\ \E t \in QueryTexts, s \in QuerySpeakers, q \in QueryQuestions :
        examples = <<[claim |-> t, speaker |-> s, check_date |-> DateGood, questions |-> q]>>
    /\ args = [n_pages |-> 1, start_idx |-> 0, n_to_compute |-> -1, resume |-> FALSE,
            misinfo_file |-> MisinfoLines]
    /\ resume_file = <<>>
    /\ env = [web |-> Web, flaky |-> TRUE, extractor |-> Extractor]

NextQuery == StartLoop \/ ProcessClaim

SpecQuery == InitQuery /\ [][NextQuery]_vars

\* the words of the text whose tag starts with CD, JJ, NN or VB, in their order
ClaimedKept(text) ==
    SelectSeq(SplitWS(Strip(text)),
              LAMBDA w : SubSeq(pos_tag(w), 1, 2)
                             \in {<<"C", "D">>, <<"J", "J">>, <<"N", "N">>, <<"V", "B">>})

NonBlank(speaker) == speaker # None /\ \E i \in 1..Len(speaker) : speaker[i] \notin Whitespace

\* the queries of one claim as the order rule gives them
ClaimedQueries(ex) ==
    (IF NonBlank(ex.speaker)
     THEN << <<Join(SplitWS(ex.speaker) \o ClaimedKept(ex.claim), SP), "claim+author">> >>
     ELSE <<>>)
    \o << <<Join(ClaimedKept(ex.claim), SP), "claim">> >>
    \o << <<ex.claim, "claim-noformat">> >>
    \o [i \in 1..Len(ex.questions) |-> <<ex.questions[i], "question">>]

\* C13: the queries of a claim handed to the search are, in this order: for a non-blank
\* speaker one claim+author query (the speaker's whitespace-split words, then the kept
\* words of the claim text), one claim query (the kept words), one claim-noformat query
\* (the raw claim text), and one question query per question, verbatim and in order;
\* the kept words are exactly those tagged CD*, JJ*, NN* or VB*, in their order, joined
\* by single spaces.
C13_QueriesInOrder == pc = "search" => queries = ClaimedQueries(Example(idx))

\* a padded speaker, two questions, and a claim text that loses some words but not all
C13_Witness ==
    /\ pc = "search"
    /\ Len(queries) = 5
    /\ Example(idx).speaker # Strip(Example(idx).speaker)
    /\ Example(idx).claim # Strip(Example(idx).claim)
    /\ LET all == SplitWS(Strip(Example(idx).claim))
       IN  /\ Len(ClaimedKept(Example(idx).claim)) \in 2..(Len(all) - 1)
           /\ queries[2][1] = Join(ClaimedKept(Example(idx).claim), SP)

-----------------------------------------------------------------------------
RecordLinesOf(o) == SelectSeq(o, LAMBDA r : r.kind = "record")

\* every record line has seven fields, and the occurrences of one link within one
\* claim show one path
C14_State ==
    /\ \A k \in RecordIdx : Len(Fields(out[k].line)) = 7
    /\ \A a, b \in Occurrences : (a[1] = b[1] /\ a[2] = b[2]) => a[3] = b[3]

\* the step that examines an accepted result appends its line, with the claim index,
\* the claim text, the link, the page, the query, the query type and the path the
\* link has in visited; no other step adds, drops or changes a record line
C14_Step ==
    /\ AcceptStep =>
           /\ out' = Append(out, out'[Len(out')])
           /\ out'[Len(out')].kind = "record"
           /\ out'[Len(out')].idx = idx
           /\ Fields(out'[Len(out')].line)
                  = <<Str(idx), Example(idx).claim, Head(results), Str(page_num),
                      queries[qi][1], <<queries[qi][2]>>, visited'[Head(results)]>>
    /\ ~AcceptStep => RecordLinesOf(out') = RecordLinesOf(out)

\* C14: for every processed claim the record lines correspond one-to-one and in order
\* to the accepted result occurrences over all queries and pages, duplicates included;
\* each line is emitted in the step that examines its result, before the next result,
\* and carries claim index, claim text, link, page number, query, query type and the
\* store path; all occurrences of one link within a claim show the same path.
C14_OneLinePerAcceptedOccurrence == []C14_State /\ [][C14_Step]_vars

\* a link printed for page 0 and again for page 1 of the second claim, with one path
C14_Witness ==
    /\ pc = "drain"
    /\ \E k1, k2 \in RecordIdx :
        /\ k1 < k2
        /\ out[k1].idx = 1 /\ out[k2].idx = 1
        /\ LinkAt(k1) = LinkAt(k2)
        /\ Fields(out[k1].line)[4] = Str(0)
        /\ Fields(out[k2].line)[4] = Str(1)
        /\ PathAt(k1) = PathAt(k2)

-----------------------------------------------------------------------------
StatusIdx == {k \in 1..Len(out) : out[k].kind = "status"}

\* C15: submitting a fetch task never waits for a task to finish (the result loop can
\* always take its next result, whatever the state of the tasks), and the pool is
\* drained once, after the claim loop has visited every claim: status lines are printed
\* only by the drain loop, and no status line stands before a record line or a replayed
\* line, even when tasks finish while later claims are still being searched.
C15_StatusAfterAllRecords ==
    /\ (pc = "results" /\ results # <<>>) => ENABLED ResultStep
    /\ StatusIdx # {} => (pc \in {"drain", "done"} /\ idx = EndIdx)
    /\ \A k1 \in StatusIdx : \A k2 \in 1..Len(out) :
           k1 < k2 => out[k2].kind \notin {"record", "replay", "header"}

\* a task of the first claim has finished while results of the second claim are being
\* examined, and nothing has been reported
C15_Witness ==
    /\ pc = "results"
    /\ results # <<>>
    /\ idx = 1
    /\ \E i \in TasksOf(0) : futures[i].st = "done"
    /\ \E i \in TasksOf(0) : futures[i].st = "running"
    /\ RecordsOf(0) # <<>>
    /\ StatusIdx = {}

-----------------------------------------------------------------------------
\* C16: over a whole run no two submitted fetch tasks have the same store path, across
\* claims as well as within one, so each store file is written by exactly one worker,
\* once, and never by another one, at the same time or later.
C16_OneWriterPerStorePath ==
    /\ \A i, j \in 1..Len(futures) : i # j => futures[i].fp # futures[j].fp
    /\ \A i, j \in Running : i # j => futures[i].fp # futures[j].fp
    /\ \A w \in files : w.by \in 1..Len(futures) /\ futures[w.by].fp = w.fp
    /\ \A w1, w2 \in files : w1.fp = w2.fp => w1 = w2

\* the run is over; two claims had the same link fetched and written, each to its own
\* file, and one claim had two links written
C16_Witness ==
    /\ pc = "done"
    /\ \E w1, w2 \in files :
        /\ futures[w1.by].meta.idx # futures[w2.by].meta.idx
        /\ futures[w1.by].url = futures[w2.by].url
    /\ \E w1, w2 \in files :
        /\ futures[w1.by].meta.idx = futures[w2.by].meta.idx
        /\ futures[w1.by].url # futures[w2.by].url

-----------------------------------------------------------------------------
\* C17 (as stated): within one search call the pause occurs only between two
\* consecutive attempts: a call that has returned after n attempts, 1 <= n <= 3, has
\* made exactly n - 1 pauses, and none after its last attempt, whether that attempt
\* succeeded or was the third failure.
C17_PausesBetweenAttemptsOnly ==
    pc = "results" => (attempt \in 1..MaxAttempts /\ pauses = attempt - 1)

-----------------------------------------------------------------------------
(* Resume parsing on its own: two claims, the resume file drawn from the     *)
(* sequences of up to MaxResumeLines lines of ResumeLinePool                 *)

MaxResumeLines == 4

\* a task of a previous run as the drain loop saw it
OldTask ==
    [url |-> U1, fp |-> StorePath(0, 1), ok |-> TRUE, exc |-> FALSE, msg |-> <<"ok">>,
     meta |-> [idx |-> 0, store_fp |-> StorePath(0, 1)]]

\* lines a previous run prints: the header, record lines (one with its line end), a
\* status line and the final line
ResumeLinePool ==
    {HeaderLine, OldLine(0, TextA, U1, 1), OldLine(0, TextA, U2, 2) \o <<"\n">>,
     OldLine(1, TextB, U1, 1), StatusLine(OldTask), FinalLine}

ResumeInputs == {<<>>} \cup SeqsUpTo(ResumeLinePool, MaxResumeLines)

InitResume ==
    /\ InitRun
    /\ examples = <<ExA, ExB>>
    /\ args = [n_pages |-> 1, start_idx |-> 0, n_to_compute |-> -1, resume |-> TRUE,
            misinfo_file |-> MisinfoLines]
    /\ resume_file \in ResumeInputs
    /\ env = [web |-> Web, flaky |-> TRUE, extractor |-> Extractor]

NextResume ==
    \/ ResumeLine
    \/ StartLoop
    \/ EndClaims
    \/ ReplayClaim
    \/ ProcessClaim

SpecResume == InitResume /\ [][NextResume]_vars

\* the line is a record line: tab-separated, seven fields, not the header
IsRecord(line) == line # HeaderLine /\ Len(Fields(Strip(line))) = 7

IsStatus(line) == line # <<>> /\ Head(line) \in {"[OK]", "[FAIL]", "[EXC]"}

\* the lines of all replay groups, stored or being built
GroupLines ==
    UNION {{existing[c].lines[k] : k \in 1..Len(existing[c].lines)} : c \in DOMAIN existing}
        \cup {next_claim.lines[k] : k \in 1..Len(next_claim.lines)}

\* the file has no header, starts with a record line, and the lines of that line's
\* claim text are the first ones of the file
HeaderlessFile ==
    /\ args.resume
    /\ resume_file # <<>>
    /\ IsRecord(resume_file[1])
    /\ LET c == ClaimTextAt(1)
       IN  \A k \in 2..Len(resume_file) :
               (Len(Fields(Strip(resume_file[k]))) >= 2 /\ ClaimTextAt(k) = c)
                   => (Len(Fields(Strip(resume_file[k - 1]))) >= 2 /\ ClaimTextAt(k - 1) = c)

\* C18 (as stated): the first line of the resume file is discarded only when it is the
\* header row; when the file has no header, its first record line is kept as the first
\* line of its claim's replay group.
C18_HeaderlessFirstLineKept ==
    (HeaderlessFile /\ pc \notin {"resume", "crashed"}) =>
        LET c == ClaimTextAt(1)
            l == Strip(resume_file[1])
        IN  \/ c \in DOMAIN existing /\ existing[c].lines # <<>> /\ existing[c].lines[1] = l
            \/ next_claim.claim = c /\ next_claim.lines # <<>> /\ next_claim.lines[1] = l

\* the file is what a previous run printed from start to end: the header, record lines,
\* then status lines (no more than there are record lines), then the final line
CompleteOutput ==
    /\ args.resume
    /\ Len(resume_file) >= 2
    /\ resume_file[1] = HeaderLine
    /\ resume_file[Len(resume_file)] = FinalLine
    /\ \E n \in 1..(Len(resume_file) - 1) :
        /\ \A k \in 2..n : IsRecord(resume_file[k])
        /\ \A k \in (n + 1)..(Len(resume_file) - 1) : IsStatus(resume_file[k])
        /\ Len(resume_file) - 1 - n <= n - 1

\* C20 (as stated): building the resume log from the complete output of a previous run
\* completes without raising, and no status line and no final line becomes part of a
\* claim's replay group.
C20_CompleteOutputParses ==
    CompleteOutput =>
        /\ pc # "crashed"
        /\ \A l \in GroupLines : ~IsStatus(l) /\ l # FinalLine

-----------------------------------------------------------------------------
\* C19 (as stated): for every check_date, well-formed or not, the date ceiling the
\* searches of the claim are given is a string of exactly 8 characters, all digits
\* (YYYYMMDD).
C19_DateCeilingHasEightDigits ==
    (DateStepDone /\ pc = "search") =>
        (Len(sort_date) = 8 /\ \A k \in 1..Len(sort_date) : sort_date[k] \in DigitSet)

====
